---- MODULE Spec2Model ----
(***************************************************************************)
(* Model of the bilingual portfolio site's client-side core.               *)
(*                                                                         *)
(* Part 1: I18nService (src/src/services/I18nService.ts): the active       *)
(* language, its persisted copy in localStorage, the listener set, the     *)
(* per-language dictionaries and translate().                              *)
(*                                                                         *)
(* Strings are sequences of one-symbol strings so that split('.') and      *)
(* String.prototype.replace are computed, not assumed.  JavaScript values  *)
(* are tagged records: a string, a plain object (own properties plus what  *)
(* it inherits from Object.prototype) or an inherited function.            *)
(*                                                                         *)
(* Part 2: the React components that sit on the service.  LanguageSwitcher *)
(* (its mirrored language and handleToggle), Gallery (the lightbox, the    *)
(* window keydown listener, the per-image loading and error mappings) and  *)
(* LazyImage with the useLazyLoad hook (intersection, the deferred src,    *)
(* the load and error events of the <img>).  A component's state is what   *)
(* its last render committed; an event handler, the re-render it causes    *)
(* and the effects of that render are one step, which is how React 18      *)
(* processes a discrete event.                                             *)
(*                                                                         *)
(* Part 3: LazyImage mounted on its own, with and without                  *)
(* IntersectionObserver; the service worker's caches and its activate      *)
(* handler; setLanguage with subscribers that call back into the service,  *)
(* one step per listener invocation; a page section with the load of its   *)
(* images; and the App shell with the other components that mirror the     *)
(* language.                                                               *)
(***************************************************************************)
EXTENDS Integers, Sequences, FiniteSets, TLC

VARIABLES
    currentLanguage,  \* I18nService.currentLanguage
    translations,     \* I18nService.translations: [he |-> dict, en |-> dict]
    listeners,        \* I18nService.listeners: a JS Set, kept in insertion order
    storage,          \* localStorage value under STORAGE_KEY
    handles,          \* the unsubscribe closures handed out by subscribe()
    notified,         \* listener invocations made by the most recent operation
    lastOp,           \* the most recent operation, its arguments and outcome
    switcher,         \* the LanguageSwitcher instance
    gallery,          \* the Gallery instance
    lazy,             \* the LazyImage instances, by image id
    app,              \* the App shell (AppContent)
    section,          \* a page section that loads a gallery's images
    stack,            \* the setLanguage calls in progress, innermost last
    caches            \* the names in the service worker's CacheStorage

\* What is mounted and what the service worker holds.
elsewhereVars == <<app, section, stack, caches>>

uiVars == <<switcher, gallery, lazy, app, section, stack, caches>>

vars == <<currentLanguage, translations, listeners, storage, handles, notified,
          lastOp, switcher, gallery, lazy, app, section, stack, caches>>

-----------------------------------------------------------------------------
(* Bounds *)

MaxHandles == 2     \* subscribe() calls per service instance
MaxSegments == 2    \* dot-separated segments in a translation key

-----------------------------------------------------------------------------
(* Values *)

Languages == {"he", "en"}
Null == "null"
Undefined == "undefined"

\* What localStorage.getItem(STORAGE_KEY) can return: nothing, a valid
\* language, or some other string.
StoredValues == {Null, "he", "en", "invalid"}

\* Listener functions that client code passes to subscribe().
Callbacks == {"cb1", "cb2"}

-----------------------------------------------------------------------------
(* Language, persistence, direction *)

loadLanguageFromStorage_unvalidated(stored, readThrows) ==
    IF readThrows THEN Null ELSE stored

loadLanguageFromStorage(stored, readThrows) ==
    IF readThrows THEN Null
    ELSE IF stored = "he" \/ stored = "en" THEN stored
    ELSE Null

\* The constructor's choice of language: loadLanguageFromStorage() || defaultLanguage,
\* where an omitted argument takes the parameter default 'he'.
constructor(stored, readThrows, defaultLanguage) ==
    LET loaded == loadLanguageFromStorage(stored, readThrows)
        dflt == IF defaultLanguage = Undefined THEN "he" ELSE defaultLanguage
    IN IF loaded # Null THEN loaded ELSE dflt

\* A variant whose setItem call never reaches the store.
saveLanguageToStorage_discard(stored, language, writeThrows) ==
    [storage |-> stored, setItem |-> <<language>>, threw |-> FALSE]

saveLanguageToStorage_nocatch(stored, language, writeThrows) ==
    IF writeThrows
    THEN [storage |-> stored, setItem |-> <<language>>, threw |-> TRUE]
    ELSE [storage |-> language, setItem |-> <<language>>, threw |-> FALSE]

\* The outcome of saveLanguageToStorage: the stored value afterwards, the
\* localStorage.setItem calls it made and whether an exception leaves it.
saveLanguageToStorage(stored, language, writeThrows) ==
    IF writeThrows
    THEN [storage |-> stored, setItem |-> <<language>>, threw |-> FALSE]
    ELSE [storage |-> language, setItem |-> <<language>>, threw |-> FALSE]

getLanguage == currentLanguage

getDirection_flipped == IF currentLanguage = "en" THEN "rtl" ELSE "ltr"

getDirection == IF currentLanguage = "he" THEN "rtl" ELSE "ltr"

-----------------------------------------------------------------------------
(* Listeners *)

\* Set.prototype.add: an element already present keeps its place.
SetAdd(set, e) ==
    IF \E i \in 1..Len(set) : set[i] = e THEN set ELSE Append(set, e)

\* Set.prototype.delete.
SetDelete(set, e) == SelectSeq(set, LAMBDA x : x # e)

SetHas(set, e) == \E i \in 1..Len(set) : set[i] = e

\* listeners.forEach(listener => listener(this.currentLanguage))
notifyListeners(set, language) ==
    [i \in 1..Len(set) |-> [listener |-> set[i], language |-> language]]

-----------------------------------------------------------------------------
(* Strings *)

Dot == "."

RECURSIVE split(_)
\* key.split('.'): the segments between the dots; a key without a dot is its
\* own single segment, also when it is empty.
split(s) ==
    IF \A i \in 1..Len(s) : s[i] # Dot THEN <<s>>
    ELSE LET i == CHOOSE j \in 1..Len(s) :
                      s[j] = Dot /\ \A m \in 1..(j - 1) : s[m] # Dot
         IN <<SubSeq(s, 1, i - 1)>> \o split(SubSeq(s, i + 1, Len(s)))

RECURSIVE Join(_)
\* The dotted key made of the given segments.
Join(segs) ==
    IF Len(segs) = 1 THEN segs[1]
    ELSE segs[1] \o <<Dot>> \o Join(Tail(segs))

-----------------------------------------------------------------------------
(* Dictionaries *)

EmptyProps == [k \in {} |-> k]
Str(s) == [type |-> "string", chars |-> s, props |-> EmptyProps]
Obj(p) == [type |-> "object", chars |-> <<>>, props |-> p]
EmptyDict == Obj(EmptyProps)

\* Property names that every plain object inherits from Object.prototype;
\* 'constructor' stands for them.  What is inherited under it is a function.
ObjectPrototypeKeys == {<<"constructor">>}
InheritedFunction == [type |-> "function", chars |-> <<>>, props |-> EmptyProps]

\* What a call yields when a TypeError leaves it.
TypeError == [type |-> "TypeError", chars |-> <<>>, props |-> EmptyProps]

\* Own property names that occur in the dictionaries.
PropNames == {<<"a">>, <<"constructor">>}

\* Segments of the keys that are looked up: the own names and the empty segment.
SegNames == PropNames \cup {<<>>}

Keys == {Join(segs) : segs \in UNION {[1..n -> SegNames] : n \in 1..MaxSegments}}

\* Leaf strings, told apart by the language they are written in.
LeafHe == <<"H">>
LeafEn == <<"E">>

\* Every dictionary of nesting depth at most two over PropNames.
SubDictsOf(leaf) ==
    {Obj(f) : f \in UNION {[S -> {Str(leaf)}] : S \in SUBSET PropNames}}

DictsOf(leaf) ==
    {Obj(f) : f \in UNION {[S -> {Str(leaf)} \cup SubDictsOf(leaf)] :
                              S \in SUBSET PropNames}}

\* The in operator: own and inherited properties of an object, a TypeError
\* for a string on its right-hand side.
JsIn(k, value) ==
    IF value.type = "string" THEN "TypeError"
    ELSE IF k \in DOMAIN value.props \/ k \in ObjectPrototypeKeys THEN "true"
    ELSE "false"

\* value && typeof value === 'object' && k in value
In(k, value) ==
    IF value.type = "object" THEN JsIn(k, value) ELSE "false"

\* value[k], for a k that is in value
Get(value, k) ==
    IF k \in DOMAIN value.props THEN value.props[k] ELSE InheritedFunction

-----------------------------------------------------------------------------
(* translate *)

RECURSIVE innerLoop(_, _)
\* The fallback loop over the English dictionary: it returns the key from
\* inside the loop when a segment is missing.
innerLoop(value, rest) ==
    IF rest = <<>> THEN [returned |-> FALSE, threw |-> FALSE, value |-> value]
    ELSE LET c == In(Head(rest), value)
         IN IF c = "TypeError"
            THEN [returned |-> FALSE, threw |-> TRUE, value |-> value]
            ELSE IF c = "true"
            THEN innerLoop(Get(value, Head(rest)), Tail(rest))
            ELSE [returned |-> TRUE, threw |-> FALSE, value |-> value]

RECURSIVE outerLoop(_, _, _, _)
\* The loop over the active dictionary: at the first missing segment it runs
\* the fallback loop over all the segments and breaks.
outerLoop(value, rest, keys, en) ==
    IF rest = <<>> THEN [returned |-> FALSE, threw |-> FALSE, value |-> value]
    ELSE LET c == In(Head(rest), value)
         IN IF c = "TypeError"
            THEN [returned |-> FALSE, threw |-> TRUE, value |-> value]
            ELSE IF c = "true"
            THEN outerLoop(Get(value, Head(rest)), Tail(rest), keys, en)
            ELSE innerLoop(en, keys)

\* String.prototype.replace's expansion of the replacement text: $$ is a
\* dollar sign and $& the matched text.
RECURSIVE GetSubstitution(_, _)
GetSubstitution(matched, replacement) ==
    IF replacement = <<>> THEN <<>>
    ELSE IF Len(replacement) >= 2 /\ replacement[1] = "$" /\ replacement[2] = "$"
    THEN <<"$">> \o GetSubstitution(matched, SubSeq(replacement, 3, Len(replacement)))
    ELSE IF Len(replacement) >= 2 /\ replacement[1] = "$" /\ replacement[2] = "&"
    THEN matched \o GetSubstitution(matched, SubSeq(replacement, 3, Len(replacement)))
    ELSE <<Head(replacement)>> \o GetSubstitution(matched, Tail(replacement))

\* The source of new RegExp(`{{${paramKey}}}`, 'g').  For a paramKey made of
\* letters every symbol of it matches itself.
RegExpSource(paramKey) == <<"{", "{">> \o paramKey \o <<"}", "}">>

RECURSIVE replace(_, _, _)
\* result.replace(regexp, paramValue) with the g flag: every match, left to
\* right, is replaced by the expansion of paramValue.
replace(s, pattern, replacement) ==
    IF s = <<>> THEN <<>>
    ELSE IF Len(s) >= Len(pattern) /\ SubSeq(s, 1, Len(pattern)) = pattern
    THEN GetSubstitution(pattern, replacement)
             \o replace(SubSeq(s, Len(pattern) + 1, Len(s)), pattern, replacement)
    ELSE <<Head(s)>> \o replace(Tail(s), pattern, replacement)

RECURSIVE reduce(_, _)
\* Object.entries(params).reduce(...): one replace per entry, in entry order,
\* each applied to the result of the one before.
reduce(entries, value) ==
    IF entries = <<>> THEN value
    ELSE reduce(Tail(entries),
                replace(value, RegExpSource(entries[1].name), entries[1].value))

translate_unchecked(language, dicts, key, params) ==
    LET keys == split(key)
        r == outerLoop(dicts[language], keys, keys, dicts["en"])
    IN IF r.threw THEN TypeError
       ELSE IF r.returned THEN Str(key)
       ELSE r.value

\* The params argument: omitted, or the entries of the object passed.
NoParams == [given |-> FALSE, entries |-> <<>>]
Given(entries) == [given |-> TRUE, entries |-> entries]

\* translate(key, params) of a service whose active language is `language`
\* and whose dictionaries are `dicts`.
translate(language, dicts, key, params) ==
    LET keys == split(key)
        r == outerLoop(dicts[language], keys, keys, dicts["en"])
    IN IF r.threw THEN TypeError
       ELSE IF r.returned THEN Str(key)
       ELSE IF r.value.type # "string" THEN Str(key)
       ELSE IF params.given THEN Str(reduce(params.entries, r.value.chars))
       ELSE r.value

assignTranslations_merge(dicts, language, data) ==
    [dicts EXCEPT ![language] =
        Obj([k \in DOMAIN dicts[language].props \cup DOMAIN data.props |->
               IF k \in DOMAIN data.props THEN data.props[k]
               ELSE dicts[language].props[k]])]

\* this.translations[language] = data
assignTranslations(dicts, language, data) ==
    [dicts EXCEPT ![language] = data]

-----------------------------------------------------------------------------
(* Components: values *)

MaxImages == 3       \* images of a Gallery whose lightbox is explored
MaxThumbnails == 2   \* images of a Gallery whose LazyImages are explored

\* selectedIndex === null; the indices themselves are 0-based as in the source.
NoIndex == -1

\* A GalleryImage descriptor is identified by its id; its urls are a function
\* of the id.
ImageIds(n) == 1..n

fullUrl(id) == <<"full", id>>

thumbnailUrl(id) == <<"thumbnail", id>>

\* The images props of at most n descriptors, ids unique within a list.
ImageLists(n) ==
    {l \in UNION {[1..k -> ImageIds(n)] : k \in 0..n} :
        \A i, j \in 1..Len(l) : l[i] = l[j] => i = j}

Ids(images) == {images[i] : i \in 1..Len(images)}

\* The listeners the components hand to i18nService.subscribe.
SwitcherListener == "LanguageSwitcher"
GalleryListener == "Gallery"

SwitcherUnmounted == [phase |-> "unmounted", currentLanguage |-> Null]

\* Record<string, boolean> with no entry.
NoStates == [id \in {} |-> TRUE]

\* No keydown listener on window.  A registered listener carries what the
\* handlers it closes over have captured; count is the number of keydown
\* listeners of this Gallery that window holds.
NoKeyListener ==
    [registered |-> FALSE, selectedIndex |-> NoIndex, length |-> 0, count |-> 0]

\* How the build binds the handlers that Gallery declares with const: as
\* block-scoped bindings (ES2015 output, what Vite emits by default) or as
\* function-scoped var (ES5 output).  The build configuration decides.
Bindings == {"const", "var"}

GalleryUnmounted ==
    [mounted |-> "no", bindings |-> Null, images |-> <<>>, language |-> Null,
     selectedIndex |-> NoIndex, isLightboxOpen |-> FALSE,
     loadingStates |-> NoStates, errorStates |-> NoStates,
     keyListener |-> NoKeyListener]

\* imageSrc === null
NoSrc == <<>>

\* A LazyImage after its first render: the hook's two flags, the component's
\* three states, and the browser's side: how many times the <img> has asked
\* for its resource and whether that request is still in flight.
LazyMounted ==
    [isIntersecting |-> FALSE, hasIntersected |-> FALSE,
     isLoading |-> TRUE, hasError |-> FALSE, imageSrc |-> NoSrc,
     requests |-> 0, pending |-> FALSE,
     onLoad |-> 0, onError |-> 0,   \* calls made to the props onLoad, onError
     mounted |-> TRUE,
     supported |-> TRUE,            \* 'IntersectionObserver' in window
     options |-> "50px 0.01",       \* rootMargin and threshold
     observers |-> 0]               \* observers created and not disconnected

AppListener == "App"
SectionListener == "Section"

AppUnmounted == [phase |-> "unmounted", language |-> Null]

\* The error state: null, or the message that was set.
NoError == [set |-> FALSE, chars |-> <<>>]

SectionUnmounted ==
    [phase |-> "unmounted", language |-> Null, direction |-> Null,
     images |-> <<>>, isLoading |-> FALSE, error |-> NoError,
     load |-> "none"]      \* the promise of the load this instance awaits

NothingMounted ==
    /\ switcher = SwitcherUnmounted
    /\ gallery = GalleryUnmounted
    /\ lazy = [id \in {} |-> LazyMounted]
    /\ app = AppUnmounted
    /\ section = SectionUnmounted
    /\ stack = <<>>
    /\ caches = {}

-----------------------------------------------------------------------------
(* Gallery: handlers and render *)

\* What a handler created in a render has captured of that render.
Closure(g) == [selectedIndex |-> g.selectedIndex, length |-> Len(g.images)]

handleThumbnailClick_next(g, index) ==
    [g EXCEPT !.selectedIndex = index + 1, !.isLightboxOpen = TRUE]

handleThumbnailClick(g, index) ==
    [g EXCEPT !.selectedIndex = index, !.isLightboxOpen = TRUE]

handleClose_keepIndex(g) == [g EXCEPT !.isLightboxOpen = FALSE]

handleClose(g) == [g EXCEPT !.isLightboxOpen = FALSE, !.selectedIndex = NoIndex]

handleNext_wrap(g, c) ==
    IF c.selectedIndex # NoIndex
    THEN [g EXCEPT !.selectedIndex = (c.selectedIndex + 1) % c.length]
    ELSE g

\* handleNext as created in the render that c was captured in.
handleNext(g, c) ==
    IF c.selectedIndex # NoIndex /\ c.selectedIndex < c.length - 1
    THEN [g EXCEPT !.selectedIndex = c.selectedIndex + 1]
    ELSE g

handlePrevious(g, c) ==
    IF c.selectedIndex # NoIndex /\ c.selectedIndex > 0
    THEN [g EXCEPT !.selectedIndex = c.selectedIndex - 1]
    ELSE g

\* onClick of the overlay: the click was on the overlay itself, or it bubbled
\* up from the content area.
handleLightboxOverlayClick(g, targetIsCurrentTarget) ==
    IF targetIsCurrentTarget THEN handleClose(g) ELSE g

KeyboardKeys == {"Escape", "ArrowLeft", "ArrowRight", "Enter"}

handleKeyDown(g, c, key) ==
    CASE key = "Escape" -> handleClose(g)
      [] key = "ArrowLeft" -> handlePrevious(g, c)
      [] key = "ArrowRight" -> handleNext(g, c)
      [] OTHER -> g

\* The dependency array of the keyboard effect, [isLightboxOpen, handleClose,
\* handleNext, handlePrevious], is evaluated during render above the const
\* declarations of the three handlers.  A block-scoped binding read there is
\* still uninitialised and the read throws a ReferenceError; a function-scoped
\* one reads undefined, in every render.
keyboardEffectDeps(g) ==
    IF g.bindings = "const"
    THEN [threw |-> TRUE, deps |-> <<>>]
    ELSE [threw |-> FALSE,
          deps |-> <<g.isLightboxOpen, Undefined, Undefined, Undefined>>]

\* The keyboard effect after the render of g1 that follows the render of g0:
\* when a dependency changed, the cleanup of the previous run removes its
\* listener and the new run adds one if the lightbox is open, closing over
\* the handlers of the render g1.
keyboardCleanup_none(k) == k

\* The cleanup that a run of the keyboard effect returned:
\* window.removeEventListener('keydown', handleKeyDown), if that run got past
\* its early return.
keyboardCleanup(k) ==
    IF k.registered THEN [NoKeyListener EXCEPT !.count = k.count - 1] ELSE k

keyboardEffect(g0, g1) ==
    IF keyboardEffectDeps(g0).deps = keyboardEffectDeps(g1).deps
    THEN g1.keyListener
    ELSE LET k == keyboardCleanup(g1.keyListener)
         IN IF ~g1.isLightboxOpen THEN k
            ELSE [registered |-> TRUE, selectedIndex |-> Closure(g1).selectedIndex,
                  length |-> Closure(g1).length, count |-> k.count + 1]

\* The state after the re-render that a handler's state updates cause, its
\* effects included.
Commit(g0, g1) == [g1 EXCEPT !.keyListener = keyboardEffect(g0, g1)]

\* The effect on [images]: every image of the list is marked loading.
initialLoadingStates(images) == [id \in Ids(images) |-> TRUE]

\* images[selectedIndex], or nothing for null and for an index past the end.
selectedImage(g) ==
    IF g.selectedIndex # NoIndex /\ g.selectedIndex < Len(g.images)
    THEN <<g.images[g.selectedIndex + 1]>>
    ELSE <<>>

\* {isLightboxOpen && selectedImage && ( ... )}
lightboxRendered(g) == g.isLightboxOpen /\ selectedImage(g) # <<>>

previousDisabled(g) == g.selectedIndex = 0

nextDisabled(g) == g.selectedIndex = Len(g.images) - 1

-----------------------------------------------------------------------------
(* Operations *)

Construct(defaultLanguage, readThrows) ==
    /\ currentLanguage' = constructor(storage, readThrows, defaultLanguage)
    /\ translations' = [he |-> EmptyDict, en |-> EmptyDict]
    /\ listeners' = <<>>
    /\ handles' = <<>>
    /\ notified' = <<>>
    /\ lastOp' = [op |-> "constructor", stored |-> storage,
                  readThrows |-> readThrows, defaultLanguage |-> defaultLanguage]
    /\ UNCHANGED storage
    /\ UNCHANGED uiVars

\* A variant that returns early when the language does not change.
setLanguage_dedup(language, writeThrows) ==
    LET same == language = currentLanguage
        saved == saveLanguageToStorage(storage, language, writeThrows)
    IN /\ currentLanguage' = language
       /\ storage' = IF same THEN storage ELSE saved.storage
       /\ notified' = IF same \/ saved.threw THEN <<>>
                      ELSE notifyListeners(listeners, language)
       /\ lastOp' = [op |-> "setLanguage", language |-> language,
                     previous |-> currentLanguage, writeThrows |-> writeThrows,
                     setItem |-> IF same THEN <<>> ELSE saved.setItem,
                     threw |-> (~same /\ saved.threw), caller |-> "caller"]
       /\ UNCHANGED <<translations, listeners, handles>>
       /\ UNCHANGED uiVars

\* Whether the calls made to the listeners include one to this listener.
Delivered(calls, listener) == \E i \in 1..Len(calls) : calls[i].listener = listener

\* setLanguage as called by caller.  The listeners that components have
\* subscribed are (lang) => setState(lang): each one that is called leaves
\* its component with lang as its mirrored language.
setLanguageBy(caller, language, writeThrows) ==
    LET saved == saveLanguageToStorage(storage, language, writeThrows)
        calls == IF saved.threw THEN <<>> ELSE notifyListeners(listeners, language)
    IN /\ currentLanguage' = language
       /\ storage' = saved.storage
       /\ notified' = calls
       /\ lastOp' = [op |-> "setLanguage", language |-> language,
                     previous |-> currentLanguage, writeThrows |-> writeThrows,
                     setItem |-> saved.setItem, threw |-> saved.threw,
                     caller |-> caller]
       /\ switcher' = IF Delivered(calls, SwitcherListener)
                      THEN [switcher EXCEPT !.currentLanguage = language]
                      ELSE switcher
       /\ gallery' = IF Delivered(calls, GalleryListener)
                     THEN [gallery EXCEPT !.language = language]
                     ELSE gallery
       /\ app' = IF Delivered(calls, AppListener)
                 THEN [app EXCEPT !.language = language]
                 ELSE app
       /\ section' = IF Delivered(calls, SectionListener)
                     THEN [section EXCEPT
                             !.language = language,
                             !.direction = IF language = "he" THEN "rtl" ELSE "ltr"]
                     ELSE section
       /\ UNCHANGED <<translations, listeners, handles, lazy, stack, caches>>

setLanguage(language, writeThrows) == setLanguageBy("caller", language, writeThrows)

subscribe(listener) ==
    /\ Len(handles) < MaxHandles
    /\ listeners' = SetAdd(listeners, listener)
    /\ handles' = Append(handles, [listener |-> listener, called |-> FALSE])
    /\ notified' = <<>>
    /\ lastOp' = [op |-> "subscribe", listener |-> listener]
    /\ UNCHANGED <<currentLanguage, translations, storage>>
    /\ UNCHANGED uiVars

\* Calling the closure returned by the h-th subscribe().
unsubscribe(h) ==
    /\ h \in 1..Len(handles)
    /\ listeners' = SetDelete(listeners, handles[h].listener)
    /\ handles' = [handles EXCEPT ![h].called = TRUE]
    /\ notified' = <<>>
    /\ lastOp' = [op |-> "unsubscribe", handle |-> h, again |-> handles[h].called,
                  result |-> SetHas(listeners, handles[h].listener)]
    /\ UNCHANGED <<currentLanguage, translations, storage>>
    /\ UNCHANGED uiVars

loadTranslations(language, data) ==
    /\ translations' = assignTranslations(translations, language, data)
    /\ notified' = <<>>
    /\ lastOp' = [op |-> "loadTranslations", language |-> language, data |-> data,
                  replaced |-> translations[language]]
    /\ UNCHANGED <<currentLanguage, listeners, storage, handles>>
    /\ UNCHANGED uiVars

Translate(key, params) ==
    /\ lastOp' = [op |-> "translate", key |-> key, params |-> params,
                  result |-> translate(currentLanguage, translations, key, params)]
    /\ notified' = <<>>
    /\ UNCHANGED <<currentLanguage, translations, listeners, storage, handles>>
    /\ UNCHANGED uiVars

-----------------------------------------------------------------------------
(* Specification of the service *)

\* The dictionaries that the service is loaded with in Spec.
LoadDicts ==
    { Obj([k \in {<<"a">>} |-> Str(LeafEn)]),
      Obj([k \in {<<"constructor">>} |-> Obj([j \in {<<"a">>} |-> Str(LeafHe)])]) }

Init ==
    /\ storage \in StoredValues
    /\ \E defaultLanguage \in Languages \cup {Undefined}, readThrows \in BOOLEAN :
         /\ currentLanguage = constructor(storage, readThrows, defaultLanguage)
         /\ lastOp = [op |-> "constructor", stored |-> storage,
                      readThrows |-> readThrows, defaultLanguage |-> defaultLanguage]
    /\ translations = [he |-> EmptyDict, en |-> EmptyDict]
    /\ listeners = <<>>
    /\ handles = <<>>
    /\ notified = <<>>
    /\ NothingMounted

Next ==
    \/ \E d \in Languages \cup {Undefined}, r \in BOOLEAN : Construct(d, r)
    \/ \E l \in Languages, w \in BOOLEAN : setLanguage(l, w)
    \/ \E cb \in Callbacks : subscribe(cb)
    \/ \E h \in 1..MaxHandles : unsubscribe(h)
    \/ \E l \in Languages, d \in LoadDicts : loadTranslations(l, d)

Spec == Init /\ [][Next]_vars

-----------------------------------------------------------------------------
(* Specification of translate's lookup: a service loaded with any pair of    *)
(* dictionaries, in either language, asked for any key.                      *)

InitTranslate ==
    /\ currentLanguage \in Languages
    /\ storage = currentLanguage
    /\ translations \in [he : DictsOf(LeafHe), en : DictsOf(LeafEn)]
    /\ listeners = <<>>
    /\ handles = <<>>
    /\ notified = <<>>
    /\ NothingMounted
    /\ lastOp = [op |-> "loadTranslations", language |-> "en",
                 data |-> translations.en, replaced |-> EmptyDict]

NextTranslate == \E key \in Keys : Translate(key, NoParams)

SpecTranslate == InitTranslate /\ [][NextTranslate]_vars

-----------------------------------------------------------------------------
(* Specification of translate's parameters: a service whose dictionaries     *)
(* hold templates under the key 'a', asked for 'a' with any params object.  *)

Templates ==
    { <<"E", "{", "{", "n", "}", "}">>,
      <<"{", "{", "n", "}", "}", "{", "{", "m", "}", "}", "{", "{", "n", "}", "}">> }

TemplateDicts ==
    {EmptyDict} \cup {Obj([k \in {<<"a">>} |-> Str(t)]) : t \in Templates}

ParamNames == {<<"n">>, <<"m">>}
ParamValues == {<<"X">>, <<"$", "&">>}

\* Object.entries(params) of every params object over the names: the entries
\* in insertion order, no name twice.
Params ==
    {p \in UNION {[1..n -> [name : ParamNames, value : ParamValues]] :
                     n \in 0..Cardinality(ParamNames)} :
        \A i, j \in 1..Len(p) : p[i].name = p[j].name => i = j}

InitInterpolate ==
    /\ currentLanguage \in Languages
    /\ storage = currentLanguage
    /\ translations \in [he : TemplateDicts, en : TemplateDicts]
    /\ listeners = <<>>
    /\ handles = <<>>
    /\ notified = <<>>
    /\ NothingMounted
    /\ lastOp = [op |-> "loadTranslations", language |-> "en",
                 data |-> translations.en, replaced |-> EmptyDict]

NextInterpolate == \E params \in Params : Translate(<<"a">>, Given(params))

SpecInterpolate == InitInterpolate /\ [][NextInterpolate]_vars

-----------------------------------------------------------------------------
(* Properties of the service *)

\* How often listener cb was invoked by the most recent operation.
Invocations(cb) == Cardinality({i \in 1..Len(notified) : notified[i].listener = cb})

\* The registrations (subscribe calls) whose unsubscribe closure was never called.
Live == {h \in 1..Len(handles) : ~handles[h].called}

\* C1: in every reachable state getDirection() is 'rtl' exactly when
\* getLanguage() is 'he' and 'ltr' exactly when it is 'en'.
C1_DirectionAgreesWithLanguage ==
    /\ (getDirection = "rtl") <=> (getLanguage = "he")
    /\ (getDirection = "ltr") <=> (getLanguage = "en")

C1_Witness ==
    /\ lastOp.op = "setLanguage"
    /\ lastOp.previous = "he"
    /\ getLanguage = "en"
    /\ getDirection = "ltr"

\* C2: every setLanguage(x), also when x is already the active language,
\* leaves x active, issues the localStorage write of x (x is stored whenever
\* the store accepts the write), returns normally and has invoked every
\* registered listener exactly once, with x, and nobody else.
C2_SetLanguageSetsPersistsNotifies ==
    lastOp.op = "setLanguage" =>
        /\ currentLanguage = lastOp.language
        /\ lastOp.setItem = <<lastOp.language>>
        /\ (~lastOp.writeThrows => storage = lastOp.language)
        /\ ~lastOp.threw
        /\ \A cb \in Callbacks :
              Invocations(cb) = IF SetHas(listeners, cb) THEN 1 ELSE 0
        /\ \A i \in 1..Len(notified) : notified[i].language = lastOp.language

C2_Witness ==
    /\ lastOp.op = "setLanguage"
    /\ lastOp.previous = lastOp.language
    /\ storage = lastOp.language
    /\ Len(notified) = 2

\* C3: once every unsubscribe closure handed out for a callback has been
\* called, setLanguage no longer invokes that callback; and calling an
\* unsubscribe closure a second time removes nothing.
C3_UnsubscribeStopsAndIsIdempotent ==
    /\ lastOp.op = "setLanguage" =>
          \A h \in 1..Len(handles) :
              (\A g \in 1..Len(handles) :
                   handles[g].listener = handles[h].listener => handles[g].called)
              => Invocations(handles[h].listener) = 0
    /\ (lastOp.op = "unsubscribe" /\ lastOp.again) => ~lastOp.result

\* C4: an unsubscribe closure removes only its own registration: every
\* registration whose closure was never called is still in the listener set
\* and is invoked by setLanguage, also when two registrations share a callback.
C4_UnsubscribeRemovesOnlyItsRegistration ==
    \A h \in Live :
        /\ SetHas(listeners, handles[h].listener)
        /\ (lastOp.op = "setLanguage" => Invocations(handles[h].listener) = 1)

\* C5: a setLanguage(x) whose localStorage write throws still returns
\* normally, leaves x active and invokes every registered listener with x.
C5_StorageFailureIsContained ==
    (lastOp.op = "setLanguage" /\ lastOp.writeThrows) =>
        /\ ~lastOp.threw
        /\ getLanguage = lastOp.language
        /\ \A i \in 1..Len(listeners) :
              \E j \in 1..Len(notified) :
                  notified[j] = [listener |-> listeners[i], language |-> lastOp.language]

C5_Witness ==
    /\ lastOp.op = "setLanguage"
    /\ lastOp.writeThrows
    /\ storage # getLanguage
    /\ Len(notified) = 2

\* C6: right after construction the active language is the stored value when
\* the read succeeds and yields 'he' or 'en'; otherwise it is the default
\* passed to the constructor, or 'he' when none was passed.
C6_InitialLanguage ==
    lastOp.op = "constructor" =>
        IF ~lastOp.readThrows /\ lastOp.stored \in Languages
        THEN getLanguage = lastOp.stored
        ELSE IF lastOp.defaultLanguage \in Languages
        THEN getLanguage = lastOp.defaultLanguage
        ELSE getLanguage = "he"

C6_Witness ==
    /\ lastOp.op = "constructor"
    /\ lastOp.stored = "invalid"
    /\ lastOp.defaultLanguage = "en"
    /\ getLanguage = "en"

-----------------------------------------------------------------------------
(* Properties of translate and loadTranslations *)

RECURSIVE Lookup(_, _)
\* What a dictionary holds under a path of segments: a string, a nested
\* dictionary, or Missing when a segment is not a key of it.
Missing == [type |-> "missing", chars |-> <<>>, props |-> EmptyProps]
Lookup(value, segs) ==
    IF segs = <<>> THEN value
    ELSE IF value.type = "object" /\ Head(segs) \in DOMAIN value.props
    THEN Lookup(value.props[Head(segs)], Tail(segs))
    ELSE Missing

Active(key) == Lookup(translations[currentLanguage], split(key))
English(key) == Lookup(translations["en"], split(key))

\* C7: a key that the English dictionary resolves to a string and that the
\* active dictionary lacks (some segment of its path is missing there) is
\* translated to the English string.
C7_FallbackToEnglish ==
    (/\ lastOp.op = "translate"
     /\ ~lastOp.params.given
     /\ English(lastOp.key).type = "string"
     /\ Active(lastOp.key) = Missing)
    => lastOp.result = English(lastOp.key)

\* C8: translate(key) never throws and returns a string; it is the key itself
\* when neither the active nor the English dictionary has the key, and when
\* the value found (in the active dictionary, else in the English one) is a
\* nested dictionary.
C8_TranslateIsTotal ==
    (lastOp.op = "translate" /\ ~lastOp.params.given) =>
        /\ lastOp.result.type = "string"
        /\ (Active(lastOp.key) = Missing /\ English(lastOp.key) = Missing)
               => lastOp.result = Str(lastOp.key)
        /\ Active(lastOp.key).type = "object" => lastOp.result = Str(lastOp.key)
        /\ (Active(lastOp.key) = Missing /\ English(lastOp.key).type = "object")
               => lastOp.result = Str(lastOp.key)

C8_Witness ==
    /\ lastOp.op = "translate"
    /\ currentLanguage = "he"
    /\ Active(lastOp.key) = Missing
    /\ English(lastOp.key).type = "object"
    /\ Len(split(lastOp.key)) = 1
    /\ lastOp.result = Str(lastOp.key)

RECURSIVE Substituted(_, _)
\* The template with every {{name}} of a name in params replaced by the
\* value given for it and everything else left as it is.
Substituted(s, params) ==
    IF s = <<>> THEN <<>>
    ELSE IF \E i \in 1..Len(params) :
              /\ Len(s) >= Len(params[i].name) + 4
              /\ SubSeq(s, 1, Len(params[i].name) + 4)
                     = <<"{", "{">> \o params[i].name \o <<"}", "}">>
    THEN LET i == CHOOSE j \in 1..Len(params) :
                      /\ Len(s) >= Len(params[j].name) + 4
                      /\ SubSeq(s, 1, Len(params[j].name) + 4)
                             = <<"{", "{">> \o params[j].name \o <<"}", "}">>
         IN params[i].value
                \o Substituted(SubSeq(s, Len(params[i].name) + 5, Len(s)), params)
    ELSE <<Head(s)>> \o Substituted(Tail(s), params)

\* The string that the lookup of the key ends at.
Resolved(key) ==
    IF Active(key) # Missing THEN Active(key) ELSE English(key)

\* C9: when the key resolves to a string, translate(key, params) is that
\* string with every {{name}} of a name in params replaced by params[name]
\* and every other placeholder unchanged.
C9_ParametersReplaced ==
    (/\ lastOp.op = "translate"
     /\ lastOp.params.given
     /\ Resolved(lastOp.key).type = "string")
    => lastOp.result
         = Str(Substituted(Resolved(lastOp.key).chars, lastOp.params.entries))

\* C10: loadTranslations(lang, d) makes d the whole dictionary of lang, leaves
\* the other dictionary, the active language, the stored language and the
\* listeners as they were, and translate then answers from d alone for lang.
C10_LoadReplacesOneDictionary ==
    [][lastOp'.op = "loadTranslations" =>
          /\ translations'[lastOp'.language] = lastOp'.data
          /\ \A l \in Languages \ {lastOp'.language} :
                 translations'[l] = translations[l]
          /\ currentLanguage' = currentLanguage
          /\ storage' = storage
          /\ listeners' = listeners
          /\ \A key \in Keys :
                 translate(currentLanguage', translations', key, NoParams)
                   = translate(currentLanguage,
                               [l \in Languages |->
                                   IF l = lastOp'.language THEN lastOp'.data
                                   ELSE translations[l]],
                               key, NoParams)]_vars

C10_Witness ==
    /\ lastOp.op = "loadTranslations"
    /\ lastOp.language = "en"
    /\ currentLanguage = "en"
    /\ <<"a">> \in DOMAIN lastOp.replaced.props
    /\ <<"a">> \notin DOMAIN lastOp.data.props
    /\ translate(currentLanguage, translations, <<"a">>, NoParams) = Str(<<"a">>)
    /\ translations.he # EmptyDict
    /\ Len(listeners) = 2
    /\ storage = "en"

\* C11: with a store that accepts writes, the persisted value equals
\* getLanguage() after any sequence of setLanguage calls: every setLanguage
\* whose write is accepted leaves the store equal to the active language (and
\* the direction equal to that language's), and no other operation of a
\* working store (subscribe, unsubscribe, loadTranslations, a construction
\* that can read the store) separates them again.  So he -> en -> he ends
\* with language he, direction rtl and 'he' in the store.
C11_PersistedValueFollowsLanguage ==
    [][ /\ (lastOp'.op = "setLanguage" /\ ~lastOp'.writeThrows)
           => /\ storage' = currentLanguage'
              /\ currentLanguage' = lastOp'.language
              /\ (currentLanguage' = "he" => getDirection' = "rtl")
              /\ (currentLanguage' = "en" => getDirection' = "ltr")
        /\ (/\ storage = getLanguage
            /\ lastOp'.op # "setLanguage"
            /\ (lastOp'.op = "constructor" => ~lastOp'.readThrows))
           => storage' = getLanguage' ]_vars

\* The round trip he -> en -> he has just ended: the language came back from
\* en to he through an accepted write, and the store says 'he'.
C11_Witness ==
    /\ lastOp.op = "setLanguage"
    /\ ~lastOp.writeThrows
    /\ lastOp.previous = "en"
    /\ lastOp.language = "he"
    /\ getLanguage = "he"
    /\ getDirection = "rtl"
    /\ storage = "he"

-----------------------------------------------------------------------------
(* LanguageSwitcher *)

\* A component event leaves the service as it is, the listener set aside.
ServiceIdle == UNCHANGED <<currentLanguage, translations, storage, handles>>

\* An event of the LanguageSwitcher, the Gallery or a LazyImage leaves the
\* rest of the page as it is.
Elsewhere == UNCHANGED elsewhereVars

\* The record of a component event: what happened, to what, at which index.
UiOp(op, target, index) == [op |-> op, target |-> target, index |-> index]

\* First render: useState(i18nService.getLanguage()).
SwitcherRender ==
    /\ switcher.phase = "unmounted"
    /\ switcher' = [phase |-> "rendered", currentLanguage |-> getLanguage]
    /\ notified' = <<>>
    /\ lastOp' = UiOp("render", SwitcherListener, NoIndex)
    /\ ServiceIdle
    /\ Elsewhere
    /\ UNCHANGED <<listeners, gallery, lazy>>

\* The effect of the first render runs: i18nService.subscribe(...).
SwitcherEffect ==
    /\ switcher.phase = "rendered"
    /\ switcher' = [switcher EXCEPT !.phase = "subscribed"]
    /\ listeners' = SetAdd(listeners, SwitcherListener)
    /\ notified' = <<>>
    /\ lastOp' = UiOp("effect", SwitcherListener, NoIndex)
    /\ ServiceIdle
    /\ Elsewhere
    /\ UNCHANGED <<gallery, lazy>>

\* Unmount: the effect's cleanup is the unsubscribe closure.
SwitcherUnmount ==
    /\ switcher.phase = "subscribed"
    /\ switcher' = SwitcherUnmounted
    /\ listeners' = SetDelete(listeners, SwitcherListener)
    /\ notified' = <<>>
    /\ lastOp' = UiOp("unmount", SwitcherListener, NoIndex)
    /\ ServiceIdle
    /\ Elsewhere
    /\ UNCHANGED <<gallery, lazy>>

\* A variant that reads the language from the service.
handleToggle_fromService(writeThrows) ==
    /\ switcher.phase # "unmounted"
    /\ setLanguageBy("handleToggle", IF getLanguage = "he" THEN "en" ELSE "he",
                     writeThrows)

\* A click on the button, which is in the document from the first render on:
\* newLanguage is computed from the component's own currentLanguage state.
handleToggle(writeThrows) ==
    /\ switcher.phase # "unmounted"
    /\ setLanguageBy("handleToggle",
                     IF switcher.currentLanguage = "he" THEN "en" ELSE "he",
                     writeThrows)

NextSwitcher ==
    \/ SwitcherRender
    \/ SwitcherEffect
    \/ SwitcherUnmount
    \/ \E w \in BOOLEAN : handleToggle(w)
    \/ \E l \in Languages, w \in BOOLEAN : setLanguage(l, w)

SpecSwitcher == Init /\ [][NextSwitcher]_vars

\* C12: each click on the LanguageSwitcher flips the service's active
\* language (he to en, en to he), whatever setLanguage calls were made from
\* elsewhere before the click; hence k clicks in a row from L end at L for
\* even k and at the other language for odd k.
C12_ClickFlipsLanguage ==
    [][ (lastOp'.op = "setLanguage" /\ lastOp'.caller = "handleToggle")
        => /\ getLanguage' # getLanguage
           /\ getLanguage' \in Languages ]_vars

-----------------------------------------------------------------------------
(* LazyImage and useLazyLoad *)

observerCallback_follow(l, isIntersecting) ==
    [l EXCEPT !.isIntersecting = isIntersecting, !.hasIntersected = isIntersecting]

\* The IntersectionObserver callback for an entry: isIntersecting follows
\* the entry, hasIntersected is only ever set to true.
observerCallback(l, isIntersecting) ==
    [l EXCEPT !.isIntersecting = isIntersecting,
              !.hasIntersected = l.hasIntersected \/ isIntersecting]

\* The effect on [hasIntersected, src, imageSrc].
srcEffect(l, src) ==
    IF l.hasIntersected /\ l.imageSrc = NoSrc THEN [l EXCEPT !.imageSrc = src] ELSE l

\* {imageSrc && !hasError && <img src={imageSrc} ... />}
imgRendered(l) == l.imageSrc # NoSrc /\ ~l.hasError

\* The browser's side of a render that follows the render of l0: an <img>
\* that enters the document, or whose src changed, asks for its resource;
\* one that leaves the document gets no more events.
Rendered(l0, l1) ==
    IF ~imgRendered(l1) THEN [l1 EXCEPT !.pending = FALSE]
    ELSE IF ~imgRendered(l0) \/ l0.imageSrc # l1.imageSrc
         THEN [l1 EXCEPT !.requests = l1.requests + 1, !.pending = TRUE]
         ELSE l1

\* {isLoading && !hasError && <div role="status" ... />}
loadingPlaceholder(l) == l.isLoading /\ ~l.hasError

\* {hasError && <div role="img" ... />}
errorPlaceholder(l) == l.hasError

imageVisible_always(l) == imgRendered(l)

\* The <img> is in the document and its style is display: block.
imageVisible(l) == imgRendered(l) /\ ~l.isLoading

handleLoad(l) == [l EXCEPT !.isLoading = FALSE, !.onLoad = l.onLoad + 1]

handleError_silent(l) == [l EXCEPT !.isLoading = FALSE, !.onError = l.onError + 1]

handleError_alsoOnLoad(l) ==
    [l EXCEPT !.isLoading = FALSE, !.hasError = TRUE,
              !.onLoad = l.onLoad + 1, !.onError = l.onError + 1]

handleError(l) ==
    [l EXCEPT !.isLoading = FALSE, !.hasError = TRUE, !.onError = l.onError + 1]

\* { ...prev, [imageId]: value }
Spread(prev, imageId, value) ==
    [id \in DOMAIN prev \cup {imageId} |-> IF id = imageId THEN value ELSE prev[id]]

handleImageLoad_all(g, imageId) ==
    [g EXCEPT !.loadingStates = [id \in DOMAIN g.loadingStates \cup {imageId} |-> FALSE]]

handleImageLoad(g, imageId) ==
    [g EXCEPT !.loadingStates = Spread(g.loadingStates, imageId, FALSE)]

handleImageError(g, imageId) ==
    [g EXCEPT !.loadingStates = Spread(g.loadingStates, imageId, FALSE),
              !.errorStates = Spread(g.errorStates, imageId, TRUE)]

useLazyLoadEffect_unguarded(l) == [l EXCEPT !.observers = l.observers + 1]

\* The effect of useLazyLoad on [rootMargin, threshold]: without
\* IntersectionObserver in window both flags are set at once, otherwise an
\* observer is created and observes the element.
useLazyLoadEffect(l) ==
    IF ~l.supported
    THEN [l EXCEPT !.isIntersecting = TRUE, !.hasIntersected = TRUE]
    ELSE [l EXCEPT !.observers = l.observers + 1]

useLazyLoadCleanup_none(l) == l

\* The cleanup that a run of the effect returned: observer.disconnect(), if
\* that run created an observer.
useLazyLoadCleanup(l) ==
    IF l.observers > 0 THEN [l EXCEPT !.observers = l.observers - 1] ELSE l

\* A LazyImage for src after its first render, the effects of that render
\* and the re-renders they cause.
FirstCommit(l, src) == Rendered(l, srcEffect(useLazyLoadEffect(l), src))

-----------------------------------------------------------------------------
(* Gallery *)

\* The Gallery, the listener set and the LazyImages after the first render
\* of <Gallery images={images} /> and its effects.
GalleryFirstCommit(images, bindings) ==
    LET g == [GalleryUnmounted EXCEPT !.bindings = bindings, !.images = images,
                                      !.language = getLanguage]
    IN IF keyboardEffectDeps(g).threw
       THEN [threw |-> TRUE,
             gallery |-> [GalleryUnmounted EXCEPT !.mounted = "error",
                                                  !.bindings = bindings],
             listeners |-> listeners,
             lazy |-> lazy]
       ELSE [threw |-> FALSE,
             gallery |-> [g EXCEPT !.mounted = "yes",
                                   !.loadingStates = initialLoadingStates(images)],
             listeners |-> SetAdd(listeners, GalleryListener),
             lazy |-> [id \in Ids(images) |->
                         FirstCommit(LazyMounted, thumbnailUrl(id))]]

\* First render and its effects.  With block-scoped handlers the render
\* throws at the keyboard effect's dependency array and nothing is mounted.
\* Otherwise: subscribe to the service, no key listener (the lightbox is
\* closed), every image marked loading, one LazyImage per image.
GalleryMount(images, bindings) ==
    /\ gallery.mounted = "no"
    /\ LET m == GalleryFirstCommit(images, bindings)
       IN /\ gallery' = m.gallery
          /\ listeners' = m.listeners
          /\ lazy' = m.lazy
    /\ notified' = <<>>
    /\ lastOp' = UiOp("mount", GalleryListener, NoIndex)
    /\ ServiceIdle
    /\ Elsewhere
    /\ UNCHANGED switcher

\* Unmount: the cleanups unsubscribe and remove the key listener.
GalleryUnmount ==
    /\ gallery.mounted = "yes"
    /\ gallery' = [GalleryUnmounted EXCEPT
                     !.keyListener = keyboardCleanup(gallery.keyListener)]
    /\ lazy' = [id \in {} |-> LazyMounted]
    /\ listeners' = SetDelete(listeners, GalleryListener)
    /\ notified' = <<>>
    /\ lastOp' = UiOp("unmount", GalleryListener, NoIndex)
    /\ ServiceIdle
    /\ Elsewhere
    /\ UNCHANGED switcher

\* A component event on the mounted Gallery that leads from gallery to g.
GalleryEvent(op, target, index, g) ==
    /\ gallery.mounted = "yes"
    /\ gallery' = Commit(gallery, g)
    /\ notified' = <<>>
    /\ lastOp' = UiOp(op, target, index)
    /\ ServiceIdle
    /\ Elsewhere
    /\ UNCHANGED <<listeners, switcher>>

\* The parent renders the Gallery with another images array.  The LazyImages
\* are keyed by image.id: those of ids that stay keep their state.
ReplaceImages(images) ==
    /\ GalleryEvent("images", "Gallery", NoIndex,
                    [gallery EXCEPT !.images = images,
                                    !.loadingStates = initialLoadingStates(images)])
    /\ lazy' = [id \in Ids(images) |->
                  IF id \in DOMAIN lazy THEN lazy[id]
                  ELSE FirstCommit(LazyMounted, thumbnailUrl(id))]

\* Activating the thumbnail button at index (by click, or Enter on it).
ThumbnailClick(index) ==
    /\ index \in 0..(Len(gallery.images) - 1)
    /\ GalleryEvent("click", "thumbnail", index, handleThumbnailClick(gallery, index))
    /\ UNCHANGED lazy

CloseClick ==
    /\ lightboxRendered(gallery)
    /\ GalleryEvent("click", "close", NoIndex, handleClose(gallery))
    /\ UNCHANGED lazy

\* The next button, with the handleNext of the current render.  A disabled
\* button dispatches no click.
NextClick ==
    /\ lightboxRendered(gallery)
    /\ ~nextDisabled(gallery)
    /\ GalleryEvent("click", "next", NoIndex, handleNext(gallery, Closure(gallery)))
    /\ UNCHANGED lazy

PreviousClick ==
    /\ lightboxRendered(gallery)
    /\ ~previousDisabled(gallery)
    /\ GalleryEvent("click", "previous", NoIndex,
                    handlePrevious(gallery, Closure(gallery)))
    /\ UNCHANGED lazy

\* A click on the overlay itself, or on the image or caption inside the
\* content area, from where it bubbles to the overlay's onClick.
OverlayClick(target) ==
    /\ lightboxRendered(gallery)
    /\ GalleryEvent("click", target, NoIndex,
                    handleLightboxOverlayClick(gallery, target = "overlay"))
    /\ UNCHANGED lazy

\* A keydown on window while a listener is registered: it runs the handlers
\* that the listener closed over when the effect added it.
KeyDown(key) ==
    /\ gallery.keyListener.registered
    /\ GalleryEvent("keydown", key, NoIndex,
                    handleKeyDown(gallery, gallery.keyListener, key))
    /\ UNCHANGED lazy

-----------------------------------------------------------------------------
(* Specification of the lightbox: a Gallery of up to MaxImages images, its   *)
(* controls, the keyboard, new images lists and language changes.            *)

InitGallery ==
    /\ currentLanguage \in Languages
    /\ storage = currentLanguage
    /\ translations = [he |-> EmptyDict, en |-> EmptyDict]
    /\ listeners = <<>>
    /\ handles = <<>>
    /\ notified = <<>>
    /\ lastOp = [op |-> "constructor", stored |-> storage,
                 readThrows |-> FALSE, defaultLanguage |-> Undefined]
    /\ NothingMounted

NextGallery ==
    \/ \E images \in ImageLists(MaxImages), b \in Bindings : GalleryMount(images, b)
    \/ GalleryUnmount
    \/ \E images \in ImageLists(MaxImages) : ReplaceImages(images)
    \/ \E index \in 0..(MaxImages - 1) : ThumbnailClick(index)
    \/ CloseClick
    \/ NextClick
    \/ PreviousClick
    \/ \E target \in {"overlay", "content"} : OverlayClick(target)
    \/ \E key \in KeyboardKeys : KeyDown(key)
    \/ \E l \in Languages : setLanguage(l, FALSE)

SpecGallery == InitGallery /\ [][NextGallery]_vars

-----------------------------------------------------------------------------
(* Properties of the lightbox *)

Closed(g) == ~g.isLightboxOpen /\ g.selectedIndex = NoIndex

Open(g, i) == g.isLightboxOpen /\ g.selectedIndex = i

\* The src of the <img> in the lightbox, if the lightbox is rendered.
LightboxSrc(g) ==
    IF lightboxRendered(g) THEN <<fullUrl(selectedImage(g)[1])>> ELSE <<>>

IsClick(op, target) == op.op = "click" /\ op.target = target

C16_KeysActOnCurrentIndex ==
    [][ lastOp'.op = "keydown"
        => gallery' = Commit(gallery,
                             handleKeyDown(gallery, Closure(gallery), lastOp'.target)) ]_vars

-----------------------------------------------------------------------------
(* LazyImage and useLazyLoad: events in a Gallery *)

\* The observer reports an entry for the LazyImage of image id; the render
\* that follows runs the src effect, whose own re-render shows the <img>.
Intersection(id, isIntersecting) ==
    /\ id \in DOMAIN lazy
    /\ lazy[id].observers > 0
    /\ GalleryEvent("intersection", IF isIntersecting THEN "visible" ELSE "hidden",
                    id, gallery)
    /\ lazy' = [lazy EXCEPT ![id] =
                  Rendered(lazy[id],
                           srcEffect(observerCallback(lazy[id], isIntersecting),
                                     thumbnailUrl(id)))]

\* The load event of the <img> of image id, whose request was in flight.
ImgLoad(id) ==
    /\ id \in DOMAIN lazy
    /\ lazy[id].pending
    /\ GalleryEvent("load", "img", id, handleImageLoad(gallery, id))
    /\ lazy' = [lazy EXCEPT ![id] =
                  [Rendered(lazy[id], handleLoad(lazy[id])) EXCEPT !.pending = FALSE]]

\* The error event of the <img> of image id, whose request was in flight.
ImgError(id) ==
    /\ id \in DOMAIN lazy
    /\ lazy[id].pending
    /\ GalleryEvent("error", "img", id, handleImageError(gallery, id))
    /\ lazy' = [lazy EXCEPT ![id] =
                  [Rendered(lazy[id], handleError(lazy[id])) EXCEPT !.pending = FALSE]]

-----------------------------------------------------------------------------
(* Specification of the images: a Gallery of up to MaxThumbnails images,     *)
(* what the observer and the browser report for each, and the lightbox.      *)

NextImages ==
    \/ \E images \in ImageLists(MaxThumbnails), b \in Bindings : GalleryMount(images, b)
    \/ GalleryUnmount
    \/ \E index \in 0..(MaxThumbnails - 1) : ThumbnailClick(index)
    \/ CloseClick
    \/ NextClick
    \/ PreviousClick
    \/ \E id \in ImageIds(MaxThumbnails), b \in BOOLEAN : Intersection(id, b)
    \/ \E id \in ImageIds(MaxThumbnails) : ImgLoad(id)
    \/ \E id \in ImageIds(MaxThumbnails) : ImgError(id)

SpecImages == InitGallery /\ [][NextImages]_vars

-----------------------------------------------------------------------------
(* Properties of the images *)

\* The load state of a LazyImage, as its two placeholders and its <img> show it.
LoadState(l) ==
    IF l.hasError THEN "Errored"
    ELSE IF ~l.isLoading THEN "Loaded"
    ELSE "Loading"

\* The load state that Gallery's two mappings record for an image id.
Recorded(g, id) ==
    IF id \in DOMAIN g.errorStates /\ g.errorStates[id] THEN "Errored"
    ELSE IF id \in DOMAIN g.loadingStates /\ ~g.loadingStates[id] THEN "Loaded"
    ELSE "Loading"

\* The LazyImage instances that a step keeps.
Kept == DOMAIN lazy \cap DOMAIN lazy'

IsImgEvent(op) == op.op = "load" \/ op.op = "error"

C19_LoadStateIsMonotonic ==
    [][ \A id \in Kept :
          /\ LoadState(lazy'[id]) # LoadState(lazy[id])
             => /\ LoadState(lazy[id]) = "Loading"
                /\ IsImgEvent(lastOp')
                /\ lastOp'.index = id
                /\ LoadState(lazy'[id]) =
                     (IF lastOp'.op = "load" THEN "Loaded" ELSE "Errored")
          /\ (IsImgEvent(lastOp') /\ lastOp'.index = id)
             => LoadState(lazy'[id]) # "Loading"
          /\ LoadState(lazy[id]) = "Errored"
             => /\ lazy'[id].requests = lazy[id].requests
                /\ ~lazy'[id].pending
                /\ ~imgRendered(lazy'[id]) ]_vars

\* An image that failed has come into view again: it is still Errored and
\* its one request was not repeated.
C19_Witness ==
    /\ lastOp.op = "intersection"
    /\ lastOp.target = "visible"
    /\ lastOp.index \in DOMAIN lazy
    /\ LoadState(lazy[lastOp.index]) = "Errored"
    /\ lazy[lastOp.index].requests = 1
    /\ ~lazy[lastOp.index].pending

\* C20: a LazyImage starts to fetch its image exactly once, at the first
\* moment hasIntersected is true; hasIntersected never returns to false; a
\* later loss of visibility neither cancels nor restarts the fetch and does
\* not change the load state.
C20_FetchStartsOnceAtFirstIntersection ==
    [][ \A id \in Kept :
          /\ lazy[id].hasIntersected => lazy'[id].hasIntersected
          /\ lazy'[id].requests = (IF lazy'[id].hasIntersected THEN 1 ELSE 0)
          /\ (~lazy[id].hasIntersected /\ lazy'[id].hasIntersected)
             => /\ lazy'[id].imageSrc = thumbnailUrl(id)
                /\ lazy'[id].pending
          /\ (lastOp'.op = "intersection" /\ lastOp'.index = id
               /\ lastOp'.target = "hidden")
             => lazy'[id] = [lazy[id] EXCEPT !.isIntersecting = FALSE] ]_vars

\* An image whose fetch is in flight has just left the viewport: the fetch
\* is still the first and still in flight.
C20_Witness ==
    /\ lastOp.op = "intersection"
    /\ lastOp.target = "hidden"
    /\ lastOp.index \in DOMAIN lazy
    /\ lazy[lastOp.index].hasIntersected
    /\ ~lazy[lastOp.index].isIntersecting
    /\ lazy[lastOp.index].pending
    /\ lazy[lastOp.index].requests = 1
    /\ LoadState(lazy[lastOp.index]) = "Loading"

\* C21: over the lifetime of a LazyImage, onLoad is called at most once and
\* only at the transition to Loaded, onError at most once and only at the
\* transition to Errored, and never both.
C21_CallbacksAtMostOnce ==
    [][ /\ \A id \in DOMAIN lazy' :
             /\ lazy'[id].onLoad + lazy'[id].onError <= 1
             /\ lazy'[id].onLoad = 1 <=> LoadState(lazy'[id]) = "Loaded"
             /\ lazy'[id].onError = 1 <=> LoadState(lazy'[id]) = "Errored"
        /\ \A id \in Kept :
             /\ lazy'[id].onLoad # lazy[id].onLoad
                => /\ LoadState(lazy[id]) = "Loading"
                   /\ LoadState(lazy'[id]) = "Loaded"
                   /\ lastOp'.op = "load" /\ lastOp'.index = id
             /\ lazy'[id].onError # lazy[id].onError
                => /\ LoadState(lazy[id]) = "Loading"
                   /\ LoadState(lazy'[id]) = "Errored"
                   /\ lastOp'.op = "error" /\ lastOp'.index = id ]_vars

\* An image whose onLoad was called has since left the viewport and come
\* back: onLoad was still called once, onError never.
C21_Witness ==
    /\ lastOp.op = "intersection"
    /\ lastOp.target = "visible"
    /\ lastOp.index \in DOMAIN lazy
    /\ LoadState(lazy[lastOp.index]) = "Loaded"
    /\ lazy[lastOp.index].onLoad = 1
    /\ lazy[lastOp.index].onError = 0

\* The phase of a LazyImage: Idle until its src is assigned, then its load
\* state.
Phase(l) == IF l.imageSrc = NoSrc /\ LoadState(l) = "Loading" THEN "Idle" ELSE LoadState(l)

\* What a LazyImage shows.
Shown(l) ==
    {x \in {"loading placeholder", "error placeholder", "image"} :
        \/ x = "loading placeholder" /\ loadingPlaceholder(l)
        \/ x = "error placeholder" /\ errorPlaceholder(l)
        \/ x = "image" /\ imageVisible(l)}

\* C22: in every reachable state a LazyImage shows exactly one of the
\* loading placeholder (while Idle or Loading), the error placeholder (when
\* Errored) and the visible image (when Loaded); the two placeholders are
\* never shown together.
C22_ExactlyOneIsShown ==
    \A id \in DOMAIN lazy :
        /\ Shown(lazy[id]) =
             (CASE Phase(lazy[id]) \in {"Idle", "Loading"} -> {"loading placeholder"}
                [] Phase(lazy[id]) = "Errored" -> {"error placeholder"}
                [] Phase(lazy[id]) = "Loaded" -> {"image"})
        /\ ~(loadingPlaceholder(lazy[id]) /\ errorPlaceholder(lazy[id]))

\* One image is being fetched behind its loading placeholder while the other
\* shows its error placeholder.
C22_Witness ==
    /\ DOMAIN lazy = {1, 2}
    /\ Phase(lazy[1]) = "Loading"
    /\ lazy[1].pending
    /\ Shown(lazy[1]) = {"loading placeholder"}
    /\ Phase(lazy[2]) = "Errored"
    /\ Shown(lazy[2]) = {"error placeholder"}

-----------------------------------------------------------------------------
(* Specification of new images lists: the Gallery of SpecImages, whose       *)
(* parent may also hand it another list at any time.                         *)

NextReload ==
    \/ \E images \in ImageLists(MaxThumbnails), b \in Bindings : GalleryMount(images, b)
    \/ GalleryUnmount
    \/ \E images \in ImageLists(MaxThumbnails) : ReplaceImages(images)
    \/ \E id \in ImageIds(MaxThumbnails), b \in BOOLEAN : Intersection(id, b)
    \/ \E id \in ImageIds(MaxThumbnails) : ImgLoad(id)
    \/ \E id \in ImageIds(MaxThumbnails) : ImgError(id)

SpecReload == InitGallery /\ [][NextReload]_vars

-----------------------------------------------------------------------------
(* LazyImage on its own: mounted outside a Gallery, in a runtime with or     *)
(* without IntersectionObserver, by an owner that may unmount it.            *)

MaxLazy == 2   \* LazyImage instances mounted on their own

\* The rootMargin and threshold a useLazyLoad caller may pass.
Options == {"50px 0.01", "0px 1"}

\* An event of the LazyImage for image id that leaves it as l.
LazyEvent(op, target, id, l) ==
    /\ gallery.mounted = "no"
    /\ lazy' = [i \in DOMAIN lazy \cup {id} |-> IF i = id THEN l ELSE lazy[i]]
    /\ notified' = <<>>
    /\ lastOp' = UiOp(op, target, id)
    /\ ServiceIdle
    /\ Elsewhere
    /\ UNCHANGED <<listeners, switcher, gallery>>

LazyMount(id, supported, options) ==
    /\ IF id \in DOMAIN lazy THEN ~lazy[id].mounted ELSE TRUE
    /\ LazyEvent("mount", IF supported THEN "observer" ELSE "no observer", id,
                 FirstCommit([LazyMounted EXCEPT !.supported = supported,
                                                 !.options = options],
                             thumbnailUrl(id)))

\* Unmount: React runs the cleanup of the hook's effect; the <img> leaves
\* the document.
LazyUnmount(id) ==
    /\ id \in DOMAIN lazy
    /\ lazy[id].mounted
    /\ LazyEvent("unmount", "LazyImage", id,
                 [useLazyLoadCleanup(lazy[id]) EXCEPT !.mounted = FALSE,
                                                      !.pending = FALSE])

\* A render with another rootMargin or threshold: the cleanup of the
\* previous run, then the effect again.
LazyOptions(id, options) ==
    /\ id \in DOMAIN lazy
    /\ lazy[id].mounted
    /\ options # lazy[id].options
    /\ LazyEvent("options", options, id,
                 Rendered(lazy[id],
                          srcEffect(useLazyLoadEffect(useLazyLoadCleanup(
                                        [lazy[id] EXCEPT !.options = options])),
                                    thumbnailUrl(id))))

\* An observer that was not disconnected reports an entry.  React drops the
\* state updates of a component that is no longer mounted.
LazyEntry(id, isIntersecting) ==
    /\ id \in DOMAIN lazy
    /\ lazy[id].observers > 0
    /\ LazyEvent("intersection", IF isIntersecting THEN "visible" ELSE "hidden", id,
                 IF lazy[id].mounted
                 THEN Rendered(lazy[id],
                               srcEffect(observerCallback(lazy[id], isIntersecting),
                                         thumbnailUrl(id)))
                 ELSE lazy[id])

LazyLoad(id) ==
    /\ id \in DOMAIN lazy
    /\ lazy[id].pending
    /\ LazyEvent("load", "img", id,
                 [Rendered(lazy[id], handleLoad(lazy[id])) EXCEPT !.pending = FALSE])

LazyError(id) ==
    /\ id \in DOMAIN lazy
    /\ lazy[id].pending
    /\ LazyEvent("error", "img", id,
                 [Rendered(lazy[id], handleError(lazy[id])) EXCEPT !.pending = FALSE])

NextLazyLoad ==
    \/ \E id \in ImageIds(MaxLazy), supported \in BOOLEAN, o \in Options :
          LazyMount(id, supported, o)
    \/ \E id \in ImageIds(MaxLazy) : LazyUnmount(id)
    \/ \E id \in ImageIds(MaxLazy), o \in Options : LazyOptions(id, o)
    \/ \E id \in ImageIds(MaxLazy), b \in BOOLEAN : LazyEntry(id, b)
    \/ \E id \in ImageIds(MaxLazy) : LazyLoad(id)
    \/ \E id \in ImageIds(MaxLazy) : LazyError(id)

SpecLazyLoad == InitGallery /\ [][NextLazyLoad]_vars

IsLazyMount(op) == op.op = "mount" /\ op.target \in {"observer", "no observer"}

\* C23: in a runtime without IntersectionObserver, useLazyLoad reports
\* hasIntersected and isIntersecting as true as soon as it is attached,
\* without throwing, so that the image's fetch starts; where the primitive
\* exists both flags are false until an intersection is reported.
C23_FailsOpenWithoutObserver ==
    [][ /\ IsLazyMount(lastOp') =>
             LET l == lazy'[lastOp'.index]
             IN /\ l.mounted
                /\ ~l.supported
                   => /\ l.hasIntersected /\ l.isIntersecting
                      /\ l.observers = 0
                      /\ l.imageSrc = thumbnailUrl(lastOp'.index)
                      /\ l.pending /\ l.requests = 1
                /\ l.supported
                   => /\ ~l.hasIntersected /\ ~l.isIntersecting
                      /\ l.imageSrc = NoSrc /\ l.requests = 0
        /\ \A id \in Kept :
             (/\ lazy[id].mounted /\ lazy'[id].mounted
              /\ lazy'[id].supported
              /\ lazy'[id].hasIntersected # lazy[id].hasIntersected
                 \/ lazy'[id].isIntersecting # lazy[id].isIntersecting)
             => (lastOp'.op = "intersection" /\ lastOp'.index = id) ]_vars

\* A LazyImage has just been mounted where there is no IntersectionObserver:
\* its fetch is under way.
C23_Witness ==
    /\ IsLazyMount(lastOp)
    /\ lastOp.target = "no observer"
    /\ lazy[lastOp.index].hasIntersected
    /\ lazy[lastOp.index].isIntersecting
    /\ lazy[lastOp.index].pending
    /\ LoadState(lazy[lastOp.index]) = "Loading"

\* C28: a useLazyLoad instance has at most one live IntersectionObserver:
\* the observer is disconnected when its owner unmounts, and before a new
\* one is created when rootMargin or threshold change; after the teardown no
\* intersection callback changes the instance's state.
C28_AtMostOneLiveObserver ==
    [][ /\ \A id \in DOMAIN lazy' :
             /\ lazy'[id].observers <= 1
             /\ ~lazy'[id].mounted => lazy'[id].observers = 0
        /\ \A id \in Kept :
             /\ (~lazy[id].mounted /\ ~lazy'[id].mounted) => lazy'[id] = lazy[id]
             /\ (lastOp'.op = "options" /\ lastOp'.index = id)
                => lazy'[id].observers = lazy[id].observers
             /\ ~lazy'[id].mounted => lastOp'.op # "intersection" \/ lastOp'.index # id
                ]_vars

\* A mounted instance whose image has loaded was given another rootMargin:
\* it has one live observer, as before.
C28_Witness ==
    /\ lastOp.op = "options"
    /\ lazy[lastOp.index].mounted
    /\ lazy[lastOp.index].supported
    /\ lazy[lastOp.index].observers = 1
    /\ LoadState(lazy[lastOp.index]) = "Loaded"

-----------------------------------------------------------------------------
(* Service worker: the caches and the activate handler *)

\* A cache name is the sequence of its parts, the hyphen being one of them.
CACHE_VERSION == <<"v1">>
STATIC_CACHE == <<"static", "-">> \o CACHE_VERSION
IMAGE_CACHE == <<"images", "-">> \o CACHE_VERSION
DOCUMENT_CACHE == <<"documents", "-">> \o CACHE_VERSION

\* The names a CacheStorage of this origin may hold: the three of this
\* version, those of an earlier version and names of other origin code.
CacheNames ==
    {STATIC_CACHE, IMAGE_CACHE, DOCUMENT_CACHE,
     <<"static", "-", "v0">>, <<"images", "-", "v0">>, <<"documents", "-", "v0">>,
     <<"documents">>, <<"workbox", "-", "v1">>}

\* String.prototype.startsWith
startsWith(name, prefix) ==
    /\ Len(name) >= Len(prefix)
    /\ SubSeq(name, 1, Len(prefix)) = prefix

\* A filter that groups the three prefix tests before the comparisons.
activateFilter_grouped(cacheName) ==
    /\ \/ startsWith(cacheName, <<"static", "-">>)
       \/ startsWith(cacheName, <<"images", "-">>)
       \/ startsWith(cacheName, <<"documents", "-">>)
    /\ cacheName # STATIC_CACHE
    /\ cacheName # IMAGE_CACHE
    /\ cacheName # DOCUMENT_CACHE

\* The predicate passed to filter: && binds tighter than ||, so the three
\* comparisons belong to the 'documents-' test alone.
activateFilter(cacheName) ==
    \/ startsWith(cacheName, <<"static", "-">>)
    \/ startsWith(cacheName, <<"images", "-">>)
    \/ /\ startsWith(cacheName, <<"documents", "-">>)
       /\ cacheName # STATIC_CACHE
       /\ cacheName # IMAGE_CACHE
       /\ cacheName # DOCUMENT_CACHE

\* An event of the service worker: it has no part in the page or the service.
WorkerEvent(op, name) ==
    /\ notified' = <<>>
    /\ lastOp' = [op |-> op, name |-> name, before |-> caches]
    /\ UNCHANGED <<currentLanguage, translations, listeners, storage, handles,
                   switcher, gallery, lazy, app, section, stack>>

\* install: caches.open(STATIC_CACHE) creates the cache if it is missing.
install ==
    /\ caches' = caches \cup {STATIC_CACHE}
    /\ WorkerEvent("install", STATIC_CACHE)

\* activate: caches.delete for every key that passes the filter.
activate ==
    /\ caches' = caches \ {cacheName \in caches : activateFilter(cacheName)}
    /\ WorkerEvent("activate", <<>>)

\* fetch of a GET request that is not in any cache and that the network
\* answers with an ok response: caches.open(cacheName), cache.put.
fetchAndCache(cacheName) ==
    /\ caches' = caches \cup {cacheName}
    /\ WorkerEvent("fetch", cacheName)

InitServiceWorker ==
    /\ currentLanguage = "he"
    /\ storage = currentLanguage
    /\ translations = [he |-> EmptyDict, en |-> EmptyDict]
    /\ listeners = <<>>
    /\ handles = <<>>
    /\ notified = <<>>
    /\ switcher = SwitcherUnmounted
    /\ gallery = GalleryUnmounted
    /\ lazy = [id \in {} |-> LazyMounted]
    /\ app = AppUnmounted
    /\ section = SectionUnmounted
    /\ stack = <<>>
    /\ caches \in SUBSET (CacheNames \ {STATIC_CACHE, IMAGE_CACHE, DOCUMENT_CACHE})
    /\ lastOp = [op |-> "register", name |-> <<>>, before |-> caches]

NextServiceWorker ==
    \/ install
    \/ activate
    \/ \E cacheName \in {STATIC_CACHE, IMAGE_CACHE, DOCUMENT_CACHE} :
          fetchAndCache(cacheName)

SpecServiceWorker == InitServiceWorker /\ [][NextServiceWorker]_vars

\* C30: on activation only old caches are deleted: every cache whose name
\* starts with 'static-', 'images-' or 'documents-' and is not static-v1,
\* images-v1 or documents-v1 is deleted, and those three are never deleted.
C30_ActivateDeletesOnlyOldCaches ==
    [][ lastOp'.op = "activate" =>
          /\ \A n \in caches :
                (/\ \/ startsWith(n, <<"static", "-">>)
                    \/ startsWith(n, <<"images", "-">>)
                    \/ startsWith(n, <<"documents", "-">>)
                 /\ n \notin {<<"static", "-", "v1">>, <<"images", "-", "v1">>,
                               <<"documents", "-", "v1">>})
                => n \notin caches'
          /\ \A n \in {<<"static", "-", "v1">>, <<"images", "-", "v1">>,
                        <<"documents", "-", "v1">>} :
                n \in caches => n \in caches' ]_vars

-----------------------------------------------------------------------------
(* setLanguage with subscribers that call back into the service: the calls   *)
(* in progress are a stack, and each invocation of a listener is a step.     *)

MaxDepth == 3   \* setLanguage calls in progress at once

\* Subscribers: cb1 only receives; pinEn and pinHe call setLanguage with
\* their own language whenever they are handed the other one.
Subscribers == {"cb1", "pinEn", "pinHe"}

\* The language a subscriber calls setLanguage with when it is handed
\* language, or Null.
Reenters(listener, language) ==
    IF listener = "pinEn" /\ language # "en" THEN "en"
    ELSE IF listener = "pinHe" /\ language # "he" THEN "he"
    ELSE Null

\* The argument of a call whose forEach callback had captured the language
\* that its setLanguage was called with.
listenerArgument_captured(frame, current) == frame.language

\* listener(this.currentLanguage): the field is read at each invocation.
listenerArgument(frame, current) == current

\* The frame of a setLanguage(language) call that has assigned the field and
\* attempted the write and is about to notify.
Frame(language, writeThrows) ==
    [language |-> language, index |-> 1, writeFailed |-> writeThrows]

Top == stack[Len(stack)]

\* A caller outside the service calls setLanguage: the assignment and the
\* write, up to the forEach.
setLanguageEnter(language, writeThrows) ==
    /\ stack = <<>>
    /\ currentLanguage' = language
    /\ storage' = saveLanguageToStorage(storage, language, writeThrows).storage
    /\ stack' = <<Frame(language, writeThrows)>>
    /\ notified' = <<>>
    /\ lastOp' = [op |-> "enter", language |-> language, depth |-> 1]
    /\ UNCHANGED <<translations, listeners, handles, switcher, gallery, lazy,
                   app, section, caches>>

\* The forEach of the innermost call invokes its next listener.  A listener
\* that calls setLanguage starts a nested call: assignment, write, and a
\* forEach of its own over the same Set.
listenerCall(writeThrows) ==
    /\ stack # <<>>
    /\ Top.index <= Len(listeners)
    /\ LET listener == listeners[Top.index]
           language == listenerArgument(Top, currentLanguage)
           again == Reenters(listener, language)
           advanced == [stack EXCEPT ![Len(stack)].index = Top.index + 1]
       IN /\ notified' = Append(notified,
                                [listener |-> listener, language |-> language,
                                 getLanguage |-> getLanguage,
                                 getDirection |-> getDirection,
                                 stored |-> storage,
                                 writeFailed |-> Top.writeFailed])
          /\ lastOp' = [op |-> "listener", language |-> language,
                        depth |-> Len(stack)]
          /\ IF again = Null
             THEN /\ ~writeThrows
                  /\ stack' = advanced
                  /\ UNCHANGED <<currentLanguage, storage>>
             ELSE /\ Len(stack) < MaxDepth
                  /\ currentLanguage' = again
                  /\ storage' = saveLanguageToStorage(storage, again,
                                                      writeThrows).storage
                  /\ stack' = Append(advanced, Frame(again, writeThrows))
    /\ UNCHANGED <<translations, listeners, handles, switcher, gallery, lazy,
                   app, section, caches>>

\* The forEach of the innermost call is through: the call returns to the
\* listener that made it, or to the outside caller.
setLanguageReturn ==
    /\ stack # <<>>
    /\ Top.index > Len(listeners)
    /\ stack' = IF Len(stack) = 1 THEN <<>>
                ELSE [SubSeq(stack, 1, Len(stack) - 1) EXCEPT
                        ![Len(stack) - 1].writeFailed = Top.writeFailed]
    /\ lastOp' = [op |-> "return", language |-> Top.language,
                  depth |-> Len(stack)]
    /\ UNCHANGED <<currentLanguage, translations, listeners, storage, handles,
                   notified, switcher, gallery, lazy, app, section, caches>>

NextReentrant ==
    \/ \E cb \in Subscribers : stack = <<>> /\ subscribe(cb)
    \/ \E l \in Languages, w \in BOOLEAN : setLanguageEnter(l, w)
    \/ \E w \in BOOLEAN : listenerCall(w)
    \/ setLanguageReturn

SpecReentrant == InitGallery /\ [][NextReentrant]_vars

\* The listeners that an outermost call has invoked, with the last language
\* each was handed.
LastReceived(listener) ==
    LET I == {i \in 1..Len(notified) : notified[i].listener = listener}
    IN IF I = {} THEN Null
       ELSE notified[CHOOSE i \in I : \A j \in I : j <= i].language

\* C29: inside setLanguage the field and the persisted value are updated
\* before any subscriber runs; each subscriber is handed the language that
\* is current when it is invoked, so getLanguage() and getDirection() agree
\* with its argument; and when subscribers call setLanguage re-entrantly,
\* once the outermost call has returned the last value that every subscriber
\* received is getLanguage().
C29_SubscribersSeeTheCurrentLanguage ==
    /\ \A i \in 1..Len(notified) :
          /\ notified[i].getLanguage = notified[i].language
          /\ notified[i].getDirection =
                (IF notified[i].language = "he" THEN "rtl" ELSE "ltr")
          /\ ~notified[i].writeFailed => notified[i].stored = notified[i].language
    /\ (stack = <<>> /\ lastOp.op = "return")
       => \A i \in 1..Len(listeners) : LastReceived(listeners[i]) = getLanguage

\* An outermost setLanguage('he') has returned after a subscriber called
\* setLanguage('en') from inside it: a listener was handed 'he' first and
\* 'en' last.
C29_Witness ==
    /\ stack = <<>>
    /\ lastOp.op = "return"
    /\ lastOp.language = "he"
    /\ getLanguage = "en"
    /\ Len(listeners) = 2
    /\ Len(notified) > Len(listeners)
    /\ \E i \in 1..Len(notified) :
          /\ notified[i].language = "he"
          /\ LastReceived(notified[i].listener) = "en"

-----------------------------------------------------------------------------
(* A page section (StudentArtworkSection, ExhibitionsSection): the mirrored  *)
(* language and direction, the load of its images and what it renders.       *)

ContentLoadFailed == <<"errors", ".", "contentLoadFailed">>
FallbackMessage == <<"Failed to load student artwork images">>

\* Dictionaries with or without errors.contentLoadFailed, which may be the
\* empty string.
MessageDictsOf(leaf) ==
    {EmptyDict} \cup
    {Obj([k \in {<<"errors">>} |->
            Obj([m \in {<<"contentLoadFailed">>} |-> Str(text)])]) :
       text \in {<<>>, leaf}}

\* i18nService.translate('errors.contentLoadFailed') || 'Failed to load ...'
errorMessage ==
    LET text == translate(currentLanguage, translations, ContentLoadFailed,
                          NoParams).chars
    IN IF text = <<>> THEN FallbackMessage ELSE text

\* Truthiness of the error state: null and the empty string are falsy.
Truthy(error) == error.set /\ error.chars # <<>>

\* The first render: the useState initial values.
SectionFirstRender ==
    [phase |-> "rendered", language |-> getLanguage, direction |-> getDirection,
     images |-> <<>>, isLoading |-> TRUE, error |-> NoError, load |-> "none"]

\* loadImages up to its await: setIsLoading(true), setError(null), the call
\* to the content manager.
loadImages(s) ==
    [s EXCEPT !.isLoading = TRUE, !.error = NoError, !.load = "pending"]

\* The promise resolved: setImages, then the finally block.
resolved(s, images) ==
    [s EXCEPT !.images = images, !.isLoading = FALSE, !.load = "settled"]

\* A catch block that is not followed by the finally block.
rejected_noFinally(s, message) ==
    [s EXCEPT !.error = [set |-> TRUE, chars |-> message], !.load = "settled"]

\* The promise rejected: the catch block, then the finally block.
rejected(s, message) ==
    [s EXCEPT !.error = [set |-> TRUE, chars |-> message],
              !.isLoading = FALSE, !.load = "settled"]

SectionMounted(s) == s.phase = "rendered" \/ s.phase = "subscribed"

\* What the section's render returns.
loadingShown(s) == SectionMounted(s) /\ s.isLoading
errorAlertShown(s) == SectionMounted(s) /\ Truthy(s.error)
galleryRendered(s) ==
    SectionMounted(s) /\ ~s.isLoading /\ ~Truthy(s.error) /\ Len(s.images) > 0
emptyShown(s) ==
    SectionMounted(s) /\ ~s.isLoading /\ ~Truthy(s.error) /\ Len(s.images) = 0

\* The listener set without the listeners of the components.
WithoutComponents(set) ==
    SetDelete(SetDelete(SetDelete(SetDelete(set, SwitcherListener), AppListener),
                        SectionListener), GalleryListener)

SectionRender ==
    /\ section.phase = "unmounted"
    /\ section' = SectionFirstRender
    /\ notified' = <<>>
    /\ lastOp' = UiOp("render", SectionListener, NoIndex)
    /\ ServiceIdle
    /\ UNCHANGED <<listeners, switcher, gallery, lazy, app, stack, caches>>

\* The effects of the first render: subscribe, and start the load.
SectionEffect ==
    /\ section.phase = "rendered"
    /\ section' = loadImages([section EXCEPT !.phase = "subscribed"])
    /\ listeners' = SetAdd(listeners, SectionListener)
    /\ notified' = <<>>
    /\ lastOp' = UiOp("effect", SectionListener, NoIndex)
    /\ ServiceIdle
    /\ UNCHANGED <<switcher, gallery, lazy, app, stack, caches>>

\* Unmount, with the Gallery if one is rendered.  A load that is pending
\* settles later into a component that is gone.
SectionUnmount ==
    /\ section.phase = "subscribed"
    /\ section' = SectionUnmounted
    /\ gallery' = [GalleryUnmounted EXCEPT
                     !.keyListener = keyboardCleanup(gallery.keyListener)]
    /\ lazy' = [id \in {} |-> LazyMounted]
    /\ listeners' = SetDelete(SetDelete(listeners, SectionListener), GalleryListener)
    /\ notified' = <<>>
    /\ lastOp' = UiOp("unmount", SectionListener, NoIndex)
    /\ ServiceIdle
    /\ UNCHANGED <<switcher, app, stack, caches>>

\* The content manager's promise resolves with images.  A list that is not
\* empty makes the section render a Gallery; a Gallery whose render throws
\* takes the whole root down, there being no error boundary above it.
LoadResolve(images, bindings) ==
    /\ section.phase = "subscribed"
    /\ section.load = "pending"
    /\ LET s == resolved(section, images)
           m == GalleryFirstCommit(images, bindings)
       IN IF ~galleryRendered(s)
          THEN /\ section' = s
               /\ UNCHANGED <<listeners, gallery, lazy, switcher, app>>
          ELSE IF m.threw
          THEN /\ section' = [SectionUnmounted EXCEPT !.phase = "crashed"]
               /\ gallery' = m.gallery
               /\ lazy' = [id \in {} |-> LazyMounted]
               /\ listeners' = WithoutComponents(listeners)
               /\ switcher' = SwitcherUnmounted
               /\ app' = AppUnmounted
          ELSE /\ section' = s
               /\ gallery' = m.gallery
               /\ lazy' = m.lazy
               /\ listeners' = m.listeners
               /\ UNCHANGED <<switcher, app>>
    /\ notified' = <<>>
    /\ lastOp' = UiOp("resolve", SectionListener, Len(images))
    /\ ServiceIdle
    /\ UNCHANGED <<stack, caches>>

\* The content manager's promise rejects.
LoadReject ==
    /\ section.phase = "subscribed"
    /\ section.load = "pending"
    /\ section' = rejected(section, errorMessage)
    /\ notified' = <<>>
    /\ lastOp' = UiOp("reject", SectionListener, NoIndex)
    /\ ServiceIdle
    /\ UNCHANGED <<listeners, switcher, gallery, lazy, app, stack, caches>>

LoadSettle ==
    \/ \E images \in ImageLists(MaxThumbnails), b \in Bindings :
          LoadResolve(images, b)
    \/ LoadReject

InitSection ==
    /\ currentLanguage \in Languages
    /\ storage = currentLanguage
    /\ translations \in [he : MessageDictsOf(LeafHe), en : MessageDictsOf(LeafEn)]
    /\ listeners = <<>>
    /\ handles = <<>>
    /\ notified = <<>>
    /\ lastOp = [op |-> "constructor", stored |-> storage,
                 readThrows |-> FALSE, defaultLanguage |-> Undefined]
    /\ NothingMounted

NextSection ==
    \/ SectionRender
    \/ SectionEffect
    \/ SectionUnmount
    \/ LoadSettle
    \/ \E l \in Languages : setLanguage(l, FALSE)

SpecSection == InitSection /\ [][NextSection]_vars

\* React runs the effects of a committed render, and the content manager's
\* load is an async function that awaits nothing outside the program: its
\* promise settles.
FairSpecSection ==
    SpecSection /\ WF_vars(SectionEffect) /\ WF_vars(LoadSettle)

\* C24: when the load rejects, the section ends with the loading indicator
\* hidden, the error alert shown and no Gallery rendered; the error alert
\* and the Gallery are never shown together; and the loading indicator is
\* eventually hidden, whether the load succeeds or fails.
C24_LoadFailureShowsOnlyTheAlert ==
    /\ [](lastOp.op = "reject" =>
             /\ ~loadingShown(section)
             /\ errorAlertShown(section)
             /\ ~galleryRendered(section)
             /\ gallery.mounted = "no")
    /\ [](~(errorAlertShown(section) /\ galleryRendered(section)))
    /\ [](errorAlertShown(section) => gallery.mounted # "yes")
    /\ (loadingShown(section) ~> ~loadingShown(section))

\* The load of a section whose dictionary has an empty message was rejected:
\* the alert shows the fallback text.
C24_Witness ==
    /\ lastOp.op = "reject"
    /\ section.load = "settled"
    /\ errorAlertShown(section)
    /\ section.error.chars = FallbackMessage
    /\ ~loadingShown(section)

-----------------------------------------------------------------------------
(* The App shell and the components that mirror the language, together.      *)

\* const direction = language === 'he' ? 'rtl' : 'ltr'
appDirection(a) == IF a.language = "he" THEN "rtl" ELSE "ltr"

\* First render of AppContent: useState(i18nService.getLanguage()).
AppRender ==
    /\ app.phase = "unmounted"
    /\ app' = [phase |-> "rendered", language |-> getLanguage]
    /\ notified' = <<>>
    /\ lastOp' = UiOp("render", AppListener, NoIndex)
    /\ ServiceIdle
    /\ UNCHANGED <<listeners, switcher, gallery, lazy, section, stack, caches>>

\* The effect of the first render runs: i18nService.subscribe(...).
AppEffect ==
    /\ app.phase = "rendered"
    /\ app' = [app EXCEPT !.phase = "subscribed"]
    /\ listeners' = SetAdd(listeners, AppListener)
    /\ notified' = <<>>
    /\ lastOp' = UiOp("effect", AppListener, NoIndex)
    /\ ServiceIdle
    /\ UNCHANGED <<switcher, gallery, lazy, section, stack, caches>>

AppUnmount ==
    /\ app.phase = "subscribed"
    /\ app' = AppUnmounted
    /\ listeners' = SetDelete(listeners, AppListener)
    /\ notified' = <<>>
    /\ lastOp' = UiOp("unmount", AppListener, NoIndex)
    /\ ServiceIdle
    /\ UNCHANGED <<switcher, gallery, lazy, section, stack, caches>>

\* The root is rendered: no render has thrown.
Alive == section.phase # "crashed"

NextMirrors ==
    \/ Alive /\ SwitcherRender
    \/ Alive /\ SwitcherEffect
    \/ Alive /\ SwitcherUnmount
    \/ Alive /\ \E w \in BOOLEAN : handleToggle(w)
    \/ Alive /\ AppRender
    \/ Alive /\ AppEffect
    \/ Alive /\ AppUnmount
    \/ SectionRender
    \/ SectionEffect
    \/ SectionUnmount
    \/ LoadSettle
    \/ \E l \in Languages, w \in BOOLEAN : setLanguage(l, w)

SpecMirrors == InitGallery /\ [][NextMirrors]_vars

\* C25: after any sequence of setLanguage calls, every mounted component
\* that mirrors the language and whose updates have been processed (its
\* subscription effect has run) shows the service's getLanguage() and a dir
\* equal to getDirection(), also when a setLanguage call fell between its
\* first render and the registration of its subscription.
C25_MirrorsFollowTheService ==
    /\ switcher.phase = "subscribed" => switcher.currentLanguage = getLanguage
    /\ app.phase = "subscribed"
       => (app.language = getLanguage /\ appDirection(app) = getDirection)
    /\ section.phase = "subscribed"
       => (section.language = getLanguage /\ section.direction = getDirection)
    /\ gallery.mounted = "yes" => gallery.language = getLanguage

====
